---- MODULE Spec2Model ----
(***************************************************************************)
(* Incremental-analysis tools of cipher: the finding relocation pipeline   *)
(* (cipher_finding_relocate), the impact graph update and cascade          *)
(* propagation tools (cipher_graph_update, cipher_graph_propagate), the    *)
(* snapshot merge with its trust score (cipher_snapshot_merge) and the     *)
(* envelope store they share a knowledge store with.                       *)
(*                                                                         *)
(* Confidences and similarity scores are percentages: 0.7 is 70, 0.95 is   *)
(* 95, 1.0 is 100.  An optional parameter is <<>> when the caller leaves   *)
(* it out and <<v>> when the caller passes v.                              *)
(***************************************************************************)
EXTENDS Integers, Sequences, FiniteSets, TLC

VARIABLES
    store,  \* the knowledge store: the payloads inserted so far, in insertion order
    last    \* the tool call being answered: its arguments, the services it ran with, its result

vars == <<store, last>>

\* ------------------------------------------------------------------ bounds

\* Most payloads the knowledge store holds.
MaxStore == 2
\* Longest caller-given strategy list.
MaxStrategies == 2
\* Longest dirty_chunks list.
MaxDirty == 2

\* ------------------------------------------------------------- basic values

None == <<>>
Some(v) == <<v>>
OrDefault(opt, d) == IF opt = None THEN d ELSE opt[1]

\* What reading a property the payload does not have yields.
Undefined == "undefined"

Projects == {"P1", "P2"}

SeqsUpTo(S, n) == UNION {[1..k -> S] : k \in 0..n}

Idle == [op |-> "none"]

\* --------------------------------------------------------- envelope store

EnvelopeIds == {"env-1"}

MinTier == 0
MaxTier == 8

validateEnvelopeParamsNoChunkTest(params) ==
    /\ params.workflow_goal \in {"AUDIT", "DOCUMENT", "BUILD_FRONTEND"}
    /\ params.confidence \in {"HIGH", "MEDIUM", "LOW"}
    /\ ~(params.tier < MinTier \/ params.tier > MaxTier)
    /\ ~(params.findings_count = 0)

\* findings_count stands for the number of keys of params.findings.
validateEnvelopeParams(params) ==
    /\ params.workflow_goal \in {"AUDIT", "DOCUMENT", "BUILD_FRONTEND"}
    /\ params.confidence \in {"HIGH", "MEDIUM", "LOW"}
    /\ ~(params.tier < MinTier \/ params.tier > MaxTier)
    /\ ~(params.chunk_index >= params.total_chunks)
    /\ ~(params.findings_count = 0)

\* The numbers records are inserted under: generateNumericVectorId() is the
\* millisecond times 1000 plus a random suffix below 1000, so two inserts in
\* the same millisecond can draw the same number.
VectorIds == {1, 2}

\* The payload envelope_store inserts: the envelope's fields (it has a project
\* field and no project_path field) plus memoryType and vector_id.
EnvelopePayload(envelopeId, params, vectorId) ==
    [memoryType |-> "envelope", envelope_id |-> envelopeId, project |-> params.project,
     project_path |-> Undefined, validation_status |-> "PENDING", vector_id |-> vectorId]

EnvelopeStoreArgs ==
    [project : Projects, workflow_goal : {"AUDIT", "BOGUS"}, confidence : {"HIGH", "BOGUS"},
     tier : {MinTier - 1, MinTier, MaxTier, MaxTier + 1}, chunk_index : {0, 1},
     total_chunks : {1}, findings_count : {0, 1}]

\* hasManagers: vectorStoreManager and embeddingManager are both in the context.
\* insertFails: embedder.embed or store.insert rejects.
\* vectorId: the number drawn for the insert, when there is one.
EnvelopeStoreEnvs ==
    {e \in [hasManagers : BOOLEAN, hasStore : BOOLEAN, hasEmbedder : BOOLEAN,
            insertFails : BOOLEAN, vectorId : VectorIds] :
        /\ e.hasStore => e.hasManagers
        /\ e.hasEmbedder => e.hasStore
        /\ e.insertFails => e.hasEmbedder
        /\ (~e.hasEmbedder \/ e.insertFails) => e.vectorId = 1}

EnvelopeStoreResult(envelopeId, params, env) ==
    IF ~validateEnvelopeParams(params) THEN [success |-> FALSE, stored |-> FALSE, inserted |-> FALSE]
    ELSE IF ~env.hasManagers THEN [success |-> TRUE, stored |-> TRUE, inserted |-> FALSE]
    ELSE IF ~env.hasStore THEN [success |-> FALSE, stored |-> FALSE, inserted |-> FALSE]
    ELSE IF ~env.hasEmbedder THEN [success |-> TRUE, stored |-> TRUE, inserted |-> FALSE]
    ELSE IF env.insertFails THEN [success |-> FALSE, stored |-> FALSE, inserted |-> FALSE]
    ELSE [success |-> TRUE, stored |-> TRUE, inserted |-> TRUE]

EnvelopeStore ==
    /\ last = Idle
    /\ \E params \in EnvelopeStoreArgs, env \in EnvelopeStoreEnvs, envelopeId \in EnvelopeIds :
         LET r == EnvelopeStoreResult(envelopeId, params, env)
         IN  /\ r.inserted => Len(store) < MaxStore
             /\ store' = IF r.inserted
                         THEN Append(store, EnvelopePayload(envelopeId, params, env.vectorId))
                         ELSE store
             /\ last' = [op |-> "envelope_store", args |-> params, env |-> env,
                         envelope_id |-> envelopeId,
                         result |-> [success |-> r.success, stored |-> r.stored]]

\* ------------------------------------------------------ finding relocation

Strategies == {"EXACT", "DRIFT", "SEMANTIC", "HASH_GLOBAL", "FUZZY"}

DefaultStrategies == <<"EXACT", "DRIFT", "SEMANTIC", "HASH_GLOBAL", "FUZZY">>

DefaultMinConfidence == 70

\* The confidence the simulated drift detection reports.
DriftConfidence == 95

\* Number of hits the SEMANTIC strategy asks the index for.
SemanticSearchLimit == 20

\* store.search(embedding, k): the k best hits.  The ranking is the index's;
\* every stored payload is a hit while the store holds fewer than k, and the
\* hits are listed in insertion order, each with the score the index gives it.
Search(st, k, score) ==
    [i \in 1..(IF Len(st) < k THEN Len(st) ELSE k) |-> [payload |-> st[i], score |-> score]]

\* The SEMANTIC post-filter on search hits.
IsProjectEnvelope(r, project_path) ==
    /\ r.payload.memoryType = "envelope"
    /\ r.payload.project_path = project_path

Tried(strategy, result, confidence) ==
    [strategy |-> strategy, result |-> result, confidence |-> confidence]

\* What one pass of the loop body leaves in (confidence, status, method), what
\* it pushes on strategiesTried, and whether it throws.
NoCandidate(pushed) ==
    [confidence |-> 0, status |-> "ORPHANED", method |-> "CONTENT_CHANGED",
     pushed |-> pushed, throws |-> FALSE]

SemanticOutcome(args, env, st, minConfidence) ==
    IF ~(env.hasStore /\ env.hasEmbedder) THEN NoCandidate(<<>>)
    ELSE IF env.searchFails THEN [NoCandidate(<<>>) EXCEPT !.throws = TRUE]
    ELSE LET rawResults == Search(st, SemanticSearchLimit, env.score)
             results == SelectSeq(rawResults, LAMBDA r : IsProjectEnvelope(r, args.project_path))
         IN  IF Len(results) > 0 /\ results[1].score > minConfidence
             THEN [confidence |-> results[1].score, status |-> "RELOCATED",
                   method |-> "SEMANTIC_SAME_FILE",
                   pushed |-> <<Tried("SEMANTIC", "MATCH", results[1].score)>>,
                   throws |-> FALSE]
             ELSE NoCandidate(<<Tried("SEMANTIC", "LOW_CONFIDENCE",
                                      IF Len(results) > 0 THEN results[1].score ELSE 0)>>)

StrategyOutcome(strategy, args, env, st, minConfidence) ==
    CASE strategy = "EXACT" -> NoCandidate(<<Tried("EXACT", "NO_MATCH", 0)>>)
      [] strategy = "DRIFT" ->
            IF args.delta_manifest
            THEN [confidence |-> DriftConfidence, status |-> "RELOCATED",
                  method |-> "LINE_DRIFT",
                  pushed |-> <<Tried("DRIFT", "MATCH", DriftConfidence)>>,
                  throws |-> FALSE]
            ELSE NoCandidate(<<Tried("DRIFT", "NO_DELTA_MANIFEST", 0)>>)
      [] strategy = "SEMANTIC" -> SemanticOutcome(args, env, st, minConfidence)
      [] strategy = "HASH_GLOBAL" -> NoCandidate(<<Tried("HASH_GLOBAL", "NO_MATCH", 0)>>)
      [] strategy = "FUZZY" -> NoCandidate(<<Tried("FUZZY", "NO_MATCH", 0)>>)

HaltsStrictly(confidence, minConfidence) == confidence > minConfidence

\* The halt test after each strategy.
Halts(confidence, minConfidence) == confidence >= minConfidence

RelocateFailure ==
    [success |-> FALSE, status |-> "ORPHANED", method |-> "CONTENT_CHANGED",
     confidence |-> 0, strategies_tried |-> <<>>]

RelocateFallback(strategiesTried) ==
    [success |-> TRUE, status |-> "STALE", method |-> "CONTENT_CHANGED",
     confidence |-> 0, strategies_tried |-> strategiesTried]

\* The strategy loop from position i on, with strategiesTried as pushed so far.
\* attempted is the list of strategies whose loop body was entered.
RECURSIVE RelocateLoop(_, _, _, _, _, _, _, _)
RelocateLoop(strategies, i, strategiesTried, attempted, args, env, st, minConfidence) ==
    IF i > Len(strategies)
    THEN [result |-> RelocateFallback(strategiesTried), attempted |-> attempted]
    ELSE LET o == StrategyOutcome(strategies[i], args, env, st, minConfidence)
             tried == strategiesTried \o o.pushed
             entered == Append(attempted, strategies[i])
         IN  IF o.throws
             THEN [result |-> RelocateFailure, attempted |-> entered]
             ELSE IF Halts(o.confidence, minConfidence)
             THEN [result |-> [success |-> TRUE, status |-> o.status, method |-> o.method,
                               confidence |-> o.confidence, strategies_tried |-> tried],
                   attempted |-> entered]
             ELSE RelocateLoop(strategies, i + 1, tried, entered, args, env, st, minConfidence)

EffectiveStrategies(args) == OrDefault(args.strategies, DefaultStrategies)
EffectiveMinConfidence(args) == OrDefault(args.min_confidence, DefaultMinConfidence)

RelocateHandler(args, env, st) ==
    RelocateLoop(EffectiveStrategies(args), 1, <<>>, <<>>, args, env, st,
                 EffectiveMinConfidence(args))

MinConfidences == {0, 95}
Scores == {70, 95}

SearchEmpties(st) == <<>>

\* What the store holds after the calls finding_relocate makes on it: the one
\* call is store.search, which reads.
SearchLeaves(st) == st

RelocateArgs ==
    [project_path : Projects,
     strategies : {None} \cup {Some(s) : s \in SeqsUpTo(Strategies, MaxStrategies)},
     min_confidence : {None} \cup {Some(c) : c \in MinConfidences},
     delta_manifest : BOOLEAN]

\* The services and the repository a relocate call runs against.  searchFails:
\* embedder.embed or store.search rejects.  snippetUnchanged: whether the
\* snippet at the finding's original location in the target commit still has
\* the stored hash (the handler never reads it).
RelocateEnvs(st, args) ==
    {e \in [hasStore : BOOLEAN, hasEmbedder : BOOLEAN, searchFails : BOOLEAN,
            score : Scores \cup {0}, snippetUnchanged : BOOLEAN] :
        /\ e.searchFails => (e.hasStore /\ e.hasEmbedder)
        /\ IF /\ e.hasStore /\ e.hasEmbedder /\ ~e.searchFails
              /\ \E i \in 1..Len(st) :
                    IsProjectEnvelope([payload |-> st[i], score |-> 0], args.project_path)
           THEN e.score \in Scores
           ELSE e.score = 0}

FindingRelocate ==
    /\ last = Idle
    /\ \E args \in RelocateArgs :
         \E env \in RelocateEnvs(store, args) :
            LET run == RelocateHandler(args, env, store)
            IN  last' = [op |-> "finding_relocate", args |-> args, env |-> env,
                         result |-> run.result, attempted |-> run.attempted]
    /\ store' = SearchLeaves(store)

\* The result goes back to the caller; the next call starts from the store alone.
Return ==
    /\ last # Idle
    /\ last' = Idle
    /\ UNCHANGED store

\* ------------------------------------------------------------ impact graph

Chunks == {"A", "B", "C"}

\* The edges callers add: a two-hop chain A - B - C of IMPORTS edges, its second
\* hop in a strong and a weak variant, a SIMILAR_TO edge, and the edge back
\* from B to A that closes a cycle.
EdgeInputs ==
    {[source |-> "A", target |-> "B", edge_type |-> "IMPORTS", weight |-> 3],
     [source |-> "B", target |-> "A", edge_type |-> "IMPORTS", weight |-> 3],
     [source |-> "B", target |-> "C", edge_type |-> "IMPORTS", weight |-> 3],
     [source |-> "B", target |-> "C", edge_type |-> "IMPORTS", weight |-> 1],
     [source |-> "A", target |-> "C", edge_type |-> "SIMILAR_TO", weight |-> 3]}

\* The payload add_edge inserts.
EdgePayload(edge, project_path, commit) ==
    [memoryType |-> "graph", recordType |-> "edge", project_path |-> project_path,
     commit |-> commit,
     source |-> edge.source, target |-> edge.target, edge_type |-> edge.edge_type,
     weight |-> edge.weight, edge_id |-> <<"edge", edge.source, edge.target, edge.edge_type>>]

\* The commit the updates belong to.
Commits == {"c1"}

GraphAddEdgeArgs ==
    [project_path : Projects, commit : Commits,
     edge : {None} \cup {Some(e) : e \in EdgeInputs}]

\* insertFails: embedder.embed or store.insert rejects.
GraphUpdateEnvs ==
    {e \in [hasStore : BOOLEAN, hasEmbedder : BOOLEAN, insertFails : BOOLEAN] :
        e.insertFails => (e.hasStore /\ e.hasEmbedder)}

GraphAddEdgeResult(args, env) ==
    IF args.edge = None THEN [success |-> FALSE, edges_affected |-> 0, inserted |-> FALSE]
    ELSE IF ~(env.hasStore /\ env.hasEmbedder)
    THEN [success |-> TRUE, edges_affected |-> 0, inserted |-> FALSE]
    ELSE IF env.insertFails THEN [success |-> FALSE, edges_affected |-> 0, inserted |-> FALSE]
    ELSE [success |-> TRUE, edges_affected |-> 1, inserted |-> TRUE]

\* graph_update, operation add_edge.
GraphAddEdge ==
    /\ last = Idle
    /\ \E args \in GraphAddEdgeArgs, env \in GraphUpdateEnvs :
         LET r == GraphAddEdgeResult(args, env)
         IN  /\ r.inserted => Len(store) < MaxStore
             /\ store' = IF r.inserted
                         THEN Append(store, EdgePayload(args.edge[1], args.project_path,
                                                       args.commit))
                         ELSE store
             /\ last' = [op |-> "graph_update", operation |-> "add_edge", args |-> args,
                         env |-> env,
                         result |-> [success |-> r.success, nodes_affected |-> 0,
                                     edges_affected |-> r.edges_affected]]

\* ------------------------------------------- impact graph: the other updates

NodeInputs ==
    {[node_id |-> "A", node_type |-> "CHUNK"], [node_id |-> "B", node_type |-> "CHUNK"]}

\* The payload add_node, update_node and bulk_update insert for a node.
NodePayload(node, project_path, commit) ==
    [memoryType |-> "graph", recordType |-> "node", project_path |-> project_path,
     commit |-> commit, node_id |-> node.node_id, node_type |-> node.node_type]

\* A delete names the records by the id they were inserted under: a number
\* for the records that keep their vector_id, never a string.  Graph records
\* are inserted under such numbers too; the model leaves their vector_id out.
NumericId(i) == <<"number", i>>
StringId(text) == <<"string", text>>

InsertedUnderAnyId(p, id) == TRUE

InsertedUnder(p, id) ==
    /\ id[1] = "number"
    /\ "vector_id" \in DOMAIN p
    /\ p.vector_id = id[2]

\* store.delete(id): the records inserted under id go, the others stay.
StoreDelete(st, id) == SelectSeq(st, LAMBDA p : ~InsertedUnder(p, id))

GraphNodeArgs ==
    [project_path : Projects, commit : Commits,
     operation : {"add_node", "update_node"},
     node : {None} \cup {Some(n) : n \in NodeInputs}]

\* graph_update, operations add_node and update_node: one case of the switch.
GraphAddNode ==
    /\ last = Idle
    /\ \E args \in GraphNodeArgs, env \in GraphUpdateEnvs :
         LET inserts == args.node # None /\ env.hasStore /\ env.hasEmbedder
                            /\ ~env.insertFails
             success == args.node # None /\ ~env.insertFails
         IN  /\ inserts => Len(store) < MaxStore
             /\ store' = IF inserts
                         THEN Append(store, NodePayload(args.node[1], args.project_path,
                                                       args.commit))
                         ELSE store
             /\ last' = [op |-> "graph_update", operation |-> args.operation,
                         args |-> args, env |-> env,
                         result |-> [success |-> success,
                                     nodes_affected |-> IF inserts THEN 1 ELSE 0,
                                     edges_affected |-> 0]]

\* deleteFails: store.delete rejects.
GraphDeleteEnvs ==
    {e \in [hasStore : BOOLEAN, deleteFails : BOOLEAN] : e.deleteFails => e.hasStore}

GraphRemoveNodeArgs ==
    [project_path : Projects, commit : Commits, node_id : {None} \cup {Some(c) : c \in Chunks}]

\* graph_update, operation remove_node.
GraphRemoveNode ==
    /\ last = Idle
    /\ \E args \in GraphRemoveNodeArgs, env \in GraphDeleteEnvs :
         LET deletes == args.node_id # None /\ env.hasStore /\ ~env.deleteFails
             success == args.node_id # None /\ ~env.deleteFails
         IN  /\ store' = IF deletes THEN StoreDelete(store, StringId(args.node_id[1]))
                         ELSE store
             /\ last' = [op |-> "graph_update", operation |-> "remove_node",
                         args |-> args, env |-> env,
                         result |-> [success |-> success,
                                     nodes_affected |-> IF deletes THEN 1 ELSE 0,
                                     edges_affected |-> 0]]

\* graph_update, operation remove_edge: the id deleted is the edge_id string.
GraphRemoveEdge ==
    /\ last = Idle
    /\ \E args \in GraphAddEdgeArgs, env \in GraphDeleteEnvs :
         LET deletes == args.edge # None /\ env.hasStore /\ ~env.deleteFails
             success == args.edge # None /\ ~env.deleteFails
             edgeId == <<"edge", args.edge[1].source, args.edge[1].target,
                         args.edge[1].edge_type>>
         IN  /\ store' = IF deletes THEN StoreDelete(store, StringId(edgeId)) ELSE store
             /\ last' = [op |-> "graph_update", operation |-> "remove_edge",
                         args |-> args, env |-> env,
                         result |-> [success |-> success, nodes_affected |-> 0,
                                     edges_affected |-> IF deletes THEN 1 ELSE 0]]

\* Longest bulk_nodes and bulk_edges lists.
MaxBulk == 1

GraphBulkArgs ==
    [project_path : Projects, commit : Commits,
     bulk_nodes : {None} \cup {Some(ns) : ns \in SeqsUpTo(NodeInputs, MaxBulk)},
     bulk_edges : {None} \cup {Some(es) : es \in SeqsUpTo(EdgeInputs, MaxBulk)}]

\* The payloads bulk_update inserts, in its order: the nodes, then the edges.
BulkPayloads(args) ==
    LET nodes == OrDefault(args.bulk_nodes, <<>>)
        edges == OrDefault(args.bulk_edges, <<>>)
    IN  [i \in 1..Len(nodes) |-> NodePayload(nodes[i], args.project_path, args.commit)]
          \o [i \in 1..Len(edges) |-> EdgePayload(edges[i], args.project_path, args.commit)]

\* failAt: the item whose embed or insert rejects, counted over the nodes and
\* then the edges; 0 when none does.
GraphBulkEnvs(args) ==
    {e \in [hasStore : BOOLEAN, hasEmbedder : BOOLEAN,
            failAt : 0..Len(BulkPayloads(args))] :
        e.failAt > 0 => (e.hasStore /\ e.hasEmbedder)}

\* graph_update, operation bulk_update: the items are inserted one by one; a
\* rejection leaves the loop for the handler's catch.
GraphBulkUpdate ==
    /\ last = Idle
    /\ \E args \in GraphBulkArgs :
         \E env \in GraphBulkEnvs(args) :
           LET items == BulkPayloads(args)
               applied == IF ~(env.hasStore /\ env.hasEmbedder) THEN 0
                          ELSE IF env.failAt > 0 THEN env.failAt - 1
                          ELSE Len(items)
               nodes == Len(OrDefault(args.bulk_nodes, <<>>))
           IN  /\ Len(store) + applied <= MaxStore
               /\ store' = store \o SubSeq(items, 1, applied)
               /\ last' = [op |-> "graph_update", operation |-> "bulk_update",
                           args |-> args, env |-> env,
                           result |->
                             IF env.failAt > 0
                             THEN [success |-> FALSE, error |-> "rejected"]
                             ELSE [success |-> TRUE,
                                   nodes_affected |-> IF applied = 0 THEN 0 ELSE nodes,
                                   edges_affected |-> applied
                                       - (IF applied = 0 THEN 0 ELSE nodes)]]

\* ------------------------------------------------------- graph propagation

DefaultMaxDepth == 3
DefaultEdgeTypes == <<"IMPORTS", "CALLS", "EXTENDS", "IMPLEMENTS">>
DefaultMinEdgeWeight == 2

\* Number of hits propagation asks the index for, per dirty chunk.
PropagateSearchLimit == 100

Range(s) == {s[i] : i \in 1..Len(s)}

\* The post-filter on search hits: graph edges of this project.
IsProjectEdge(r, project_path) ==
    /\ r.payload.memoryType = "graph"
    /\ r.payload.recordType = "edge"
    /\ r.payload.project_path = project_path

NoInitialVisited(dirty_chunks) == {}

\* visited as constructed: the dirty chunks.
InitialVisited(dirty_chunks) == Range(dirty_chunks)

\* The body of the loop over the filtered hits, for one hit.
VisitEdge(acc, chunkId, edge) ==
    IF edge.source = chunkId \/ edge.target = chunkId
    THEN LET affectedChunk == IF edge.source = chunkId THEN edge.target ELSE edge.source
             added ==
                 IF affectedChunk \notin acc.visited
                 THEN [acc EXCEPT
                         !.cascadeAffected = Append(@, affectedChunk),
                         !.visited = @ \cup {affectedChunk},
                         !.cascadeChains =
                             Append(@, [source_chunk |-> chunkId,
                                        affected_chunk |-> affectedChunk,
                                        path |-> <<chunkId, affectedChunk>>,
                                        edge_types |-> <<edge.edge_type>>,
                                        depth |-> 1]),
                         !.edgesTraversed = @ + 1]
                 ELSE acc
         IN  [added EXCEPT !.nodesVisited = @ + 1]
    ELSE acc

RECURSIVE VisitResults(_, _, _, _)
VisitResults(acc, chunkId, results, k) ==
    IF k > Len(results) THEN acc
    ELSE VisitResults(VisitEdge(acc, chunkId, results[k].payload), chunkId, results, k + 1)

\* The loop over dirty_chunks from position j on: one search per dirty chunk.
RECURSIVE VisitDirty(_, _, _, _)
VisitDirty(acc, args, st, j) ==
    IF j > Len(args.dirty_chunks) THEN acc
    ELSE LET rawResults == Search(st, PropagateSearchLimit, 0)
             results == SelectSeq(rawResults, LAMBDA r : IsProjectEdge(r, args.project_path))
         IN  VisitDirty(VisitResults(acc, args.dirty_chunks[j], results, 1), args, st, j + 1)

\* The accumulators as declared before the loop.
PropagateStart(args) ==
    [cascadeAffected |-> <<>>, visited |-> InitialVisited(args.dirty_chunks),
     cascadeChains |-> <<>>, nodesVisited |-> 0, edgesTraversed |-> 0]

\* The success result, built from the accumulators.
PropagateResult(args, acc) ==
    [success |-> TRUE,
     cascade_affected |-> acc.cascadeAffected,
     semantic_affected |-> <<>>,
     all_affected |-> args.dirty_chunks \o acc.cascadeAffected,
     cascade_chains |-> acc.cascadeChains,
     stats |-> [nodes_visited |-> acc.nodesVisited,
                edges_traversed |-> acc.edgesTraversed,
                max_depth_reached |-> 0]]

PropagateSearches(env) == env.hasServices /\ env.hasStore

PropagateHandler(args, env, st) ==
    IF PropagateSearches(env) /\ env.searchFails /\ args.dirty_chunks # <<>>
    THEN [success |-> FALSE]
    ELSE PropagateResult(args, IF PropagateSearches(env)
                               THEN VisitDirty(PropagateStart(args), args, st, 1)
                               ELSE PropagateStart(args))

PropagateArgs ==
    [project_path : Projects,
     dirty_chunks : SeqsUpTo(Chunks, MaxDirty),
     max_depth : {None, Some(0), Some(DefaultMaxDepth)},
     edge_types : {None, Some(<<"CALLS">>)},
     min_edge_weight : {None, Some(DefaultMinEdgeWeight)}]

\* hasServices: vectorStoreManager, embeddingManager and the default embedder are
\* all there.  searchFails: embedder.embed or store.search rejects.
PropagateEnvs ==
    {e \in [hasServices : BOOLEAN, hasStore : BOOLEAN, searchFails : BOOLEAN] :
        /\ e.hasStore => e.hasServices
        /\ e.searchFails => e.hasStore}

GraphPropagate ==
    /\ last = Idle
    /\ \E args \in PropagateArgs, env \in PropagateEnvs :
         last' = [op |-> "graph_propagate", args |-> args, env |-> env,
                  result |-> PropagateHandler(args, env, store)]
    /\ UNCHANGED store

\* --------------------------------------- graph propagation, step by step

\* The same handler with its loops unrolled into steps: j is the position in
\* dirty_chunks, k the position in the filtered hits of chunk j (0 before the
\* search of chunk j has returned).
PropagateRunning == last.op = "graph_propagate_run"

PropagateHits(args, st) ==
    SelectSeq(Search(st, PropagateSearchLimit, 0),
              LAMBDA r : IsProjectEdge(r, args.project_path))

StayAtHit(k) == k

\* for (const result of results): the iterator moves to the next hit.
NextHit(k) == k + 1

\* The calls followed step by step: max_depth, edge_types and min_edge_weight
\* are read into locals no step looks at, so they stay absent here, and the
\* calls are those of one project, over a store with edges of both.
PropagateRunArgs ==
    {a \in PropagateArgs :
        /\ a.max_depth = None /\ a.edge_types = None /\ a.min_edge_weight = None
        /\ a.project_path = "P1"}

PropagateBegin ==
    /\ last = Idle
    /\ \E args \in PropagateRunArgs, env \in PropagateEnvs :
         last' = [op |-> "graph_propagate_run", args |-> args, env |-> env,
                  j |-> 1, k |-> 0, acc |-> PropagateStart(args)]
    /\ UNCHANGED store

\* embedder.embed and store.search for dirty chunk j: they reject or return.
PropagateSearch ==
    /\ PropagateRunning
    /\ PropagateSearches(last.env)
    /\ last.j <= Len(last.args.dirty_chunks)
    /\ last.k = 0
    /\ last' = IF last.env.searchFails
               THEN [op |-> "graph_propagate", args |-> last.args, env |-> last.env,
                     result |-> [success |-> FALSE]]
               ELSE [last EXCEPT !.k = 1]
    /\ UNCHANGED store

\* One iteration of the loop over the filtered hits.
PropagateVisit ==
    /\ PropagateRunning
    /\ last.k >= 1
    /\ last.k <= Len(PropagateHits(last.args, store))
    /\ last' = [last EXCEPT
                  !.acc = VisitEdge(@, last.args.dirty_chunks[last.j],
                                    PropagateHits(last.args, store)[last.k].payload),
                  !.k = NextHit(@)]
    /\ UNCHANGED store

\* The hits of chunk j are exhausted: on to the next dirty chunk.
PropagateNextChunk ==
    /\ PropagateRunning
    /\ last.k >= 1
    /\ last.k > Len(PropagateHits(last.args, store))
    /\ last' = [last EXCEPT !.j = @ + 1, !.k = 0]
    /\ UNCHANGED store

\* Past the loops (or no services to search with): the result is returned.
PropagateEnd ==
    /\ PropagateRunning
    /\ ~PropagateSearches(last.env) \/ last.j > Len(last.args.dirty_chunks)
    /\ last' = [op |-> "graph_propagate", args |-> last.args, env |-> last.env,
                result |-> PropagateResult(last.args, last.acc)]
    /\ UNCHANGED store

PropagateStep == PropagateSearch \/ PropagateVisit \/ PropagateNextChunk \/ PropagateEnd


\* ------------------------------------------------------------ trust score

\* Largest count of findings of one kind.
MaxCount == 4

\* Numbers are kept exact: a ratio is a pair num/den, freshness is in
\* hundredths (90 for 0.9), overall is in tenths (97 for 9.7).
Ratio(num, den) == [num |-> num, den |-> den]

\* A component is a double.  The double that stands for the fraction num/den
\* is written by its distance from it: the value is
\* num/den + off / (den * 2^exp), where 2^-exp is the spacing of the doubles
\* around num/den.  0 and 1 are exact and have exp = 0, off = 0.
Double(ratio, exp, off) ==
    [num |-> ratio.num, den |-> ratio.den, exp |-> exp, off |-> off]

\* Bits of a double's significand.
SignificandBits == 53

RECURSIVE Pow2(_)
Pow2(n) == IF n = 0 THEN 1 ELSE 2 * Pow2(n - 1)

\* 2^e modulo m.
RECURSIVE Pow2Mod(_, _)
Pow2Mod(e, m) == IF e = 0 THEN 1 % m ELSE (2 * Pow2Mod(e - 1, m)) % m

\* For 0 < k < t: the j with 2^-(j+1) <= k/t < 2^-j.
RECURSIVE Binade(_, _, _)
Binade(k, t, j) == IF Pow2(j + 1) * k >= t THEN j ELSE Binade(k, t, j + 1)

Spacing(k, t) == SignificandBits + Binade(k, t, 0)

\* What to add to a number n, known by r = n mod 2T, to reach the nearest
\* multiple of T; halfway, the even multiple.
ToNearest(r, T) ==
    LET rem == r % T
    IN  IF 2 * rem < T THEN 0 - rem
        ELSE IF 2 * rem > T THEN T - rem
        ELSE IF r < T THEN 0 - rem ELSE T - rem

\* k / t in double arithmetic, 0 <= k <= t, t > 0.
Divide(k, t) ==
    IF k = 0 \/ k = t THEN Double(Ratio(k, t), 0, 0)
    ELSE LET e == Spacing(k, t)
         IN  Double(Ratio(k, t), e, ToNearest((k * Pow2Mod(e, 2 * t)) % (2 * t), t))

\* 1 - x in double arithmetic, for a double x that stands for m/t: the exact
\* difference (t - m)/t - x.off / (t * 2^x.exp), rounded to the doubles around
\* (t - m)/t.
OneMinus(x) ==
    LET t == x.den
        k == x.den - x.num
    IN  IF k = 0 \/ k = t THEN Double(Ratio(k, t), 0, 0)
        ELSE LET e == Spacing(k, t)
                 fine == IF x.exp > e THEN x.exp ELSE e
                 step == Pow2(fine - e)
                 T == t * step
                 shift == x.off * Pow2(fine - x.exp)
                 \* the exact difference times t * 2^fine, modulo 2T
                 r == (k * Pow2Mod(fine, 2 * T) + 2 * T * T - shift) % (2 * T)
             IN  Double(Ratio(k, t), e, (ToNearest(r, T) - shift) \div step)

FreshnessAlwaysNew(newFindings) == 90

FreshnessFull(newFindings) == IF newFindings > 0 THEN 100 ELSE 70

Freshness(newFindings) == IF newFindings > 0 THEN 90 ELSE 70

\* Math.round(x) for x = num/den >= 0: the nearest integer, halves upwards.
Round(num, den) == (2 * num + den) \div (2 * den)

Level(overall) == IF overall >= 80 THEN "HIGH" ELSE IF overall >= 50 THEN "MEDIUM" ELSE "LOW"

EmptyTrustScoreLow ==
    [overall |-> 0, level |-> "LOW",
     components |-> [coverage |-> Double(Ratio(1, 1), 0, 0), freshness |-> 100,
                     confidence |-> Double(Ratio(1, 1), 0, 0)]]

\* The score returned when there are no findings at all.
EmptyTrustScore ==
    [overall |-> 100, level |-> "HIGH",
     components |-> [coverage |-> Double(Ratio(1, 1), 0, 0), freshness |-> 100,
                     confidence |-> Double(Ratio(1, 1), 0, 0)]]

computeMixedTrustScore(preserved, relocated, stale, orphaned, newFindings) ==
    LET total == preserved + relocated + stale + orphaned + newFindings
        coverage == Divide(preserved + relocated + newFindings, total)
        freshness == Freshness(newFindings)
        confidence == OneMinus(Divide(stale + orphaned, total))
        \* (coverage * 0.4 + freshness * 0.3 + confidence * 0.3) * 10 * 10, over
        \* total; the components are within 2^-52 of their fractions, which moves
        \* no sum of the model across a rounding boundary.
        scaled == 40 * coverage.num + ((30 * freshness) \div 100) * total
                    + 30 * confidence.num
        overall == Round(scaled, total)
    IN  IF total = 0 THEN EmptyTrustScore
        ELSE [overall |-> overall, level |-> Level(overall),
              components |-> [coverage |-> coverage, freshness |-> freshness,
                              confidence |-> confidence]]

TrustCounts ==
    [preserved : 0..MaxCount, relocated : 0..MaxCount, stale : 0..MaxCount,
     orphaned : 0..MaxCount, newFindings : 0..MaxCount]

\* One evaluation of computeMixedTrustScore.
ComputeTrust ==
    /\ last = Idle
    /\ \E c \in TrustCounts :
         last' = [op |-> "trust_score", args |-> c,
                  result |-> computeMixedTrustScore(c.preserved, c.relocated, c.stale,
                                                    c.orphaned, c.newFindings)]
    /\ UNCHANGED store

\* ---------------------------------------------------------- snapshot merge

\* Longest delta_envelope_ids list.
MaxDelta == 2

\* Baseline findings, in the key order of the relocation_results object.
FindingIds == <<"f1", "f2">>
DeltaIds == {"e1", "e2"}
\* A snapshot id no call of the model generates.
BaselineIds == {<<"snap", 0, "c0">>}
Seconds == {1, 2}

\* Where relocated findings are reported to be now.
NewLocations ==
    {[file |-> "a.ts", line_start |-> 10, line_end |-> 20],
     [file |-> "c.ts", line_start |-> 1, line_end |-> 5]}

\* RelocationResult, as far as the merge and its contract look at it.
RelocationOutcomes ==
    [status : {"PRESERVED", "STALE", "ORPHANED"}, new_location : {None}]
      \cup [status : {"RELOCATED"}, new_location : {Some(l) : l \in NewLocations}]

RelocationMaps ==
    UNION {[D -> RelocationOutcomes] : D \in SUBSET Range(FindingIds)}

ConflictStrategies == {"PREFER_NEW", "PREFER_BASELINE", "KEEP_BOTH"}

MergeArgs ==
    [project_path : Projects,
     baseline_snapshot_id : BaselineIds,
     target_commit : Commits,
     relocation_results : RelocationMaps,
     delta_envelope_ids : SeqsUpTo(DeltaIds, MaxDelta),
     conflict_strategy : {None} \cup {Some(c) : c \in ConflictStrategies}]

\* now: the second the call runs in.  insertFails: embedder.embed or
\* store.insert rejects.
MergeEnvs ==
    {e \in [hasManagers : BOOLEAN, hasStore : BOOLEAN, hasEmbedder : BOOLEAN,
            insertFails : BOOLEAN, now : Seconds, vectorId : VectorIds] :
        /\ e.hasStore => e.hasManagers
        /\ e.hasEmbedder => e.hasStore
        /\ e.insertFails => e.hasEmbedder
        /\ (~e.hasEmbedder \/ e.insertFails) => e.vectorId = 1}

\* snap-<date and time to the second>-<first 7 characters of the commit>.
generateSnapshotId(commit, now) == <<"snap", now, commit>>

StatusCountKeptOnly(results, status) ==
    IF status \in {"STALE", "ORPHANED"} THEN 0
    ELSE Cardinality({id \in DOMAIN results : results[id].status = status})

\* The switch over Object.values(relocationResults), for one status.
StatusCount(results, status) ==
    Cardinality({id \in DOMAIN results : results[id].status = status})

SurvivesAlways(status) == TRUE

\* The filter on the keys of relocationResults.
Survives(status) == status \in {"PRESERVED", "RELOCATED"}

\* allFindings: the surviving keys, then the delta envelope ids.
AllFindings(args) ==
    SelectSeq(FindingIds,
              LAMBDA id : /\ id \in DOMAIN args.relocation_results
                          /\ Survives(args.relocation_results[id].status))
      \o args.delta_envelope_ids

MergeTrustScore(args) ==
    computeMixedTrustScore(StatusCount(args.relocation_results, "PRESERVED"),
                           StatusCount(args.relocation_results, "RELOCATED"),
                           StatusCount(args.relocation_results, "STALE"),
                           StatusCount(args.relocation_results, "ORPHANED"),
                           Len(args.delta_envelope_ids))

\* The payload inserted: the snapshot and its memoryType.
MergedSnapshotPayload(args, env) ==
    LET snapshotId == generateSnapshotId(args.target_commit, env.now)
    IN  [memoryType |-> "snapshot",
         snapshot_id |-> snapshotId,
         project_path |-> args.project_path,
         git_commit |-> args.target_commit,
         git_branch |-> "",
         analysis_mode |-> "INCREMENTAL",
         baseline_snapshot_id |-> args.baseline_snapshot_id,
         findings |-> AllFindings(args),
         trust_score |-> MergeTrustScore(args),
         provenance_chain |-> <<args.baseline_snapshot_id, snapshotId>>,
         vector_id |-> env.vectorId]

MergeResult(args, env) ==
    IF ~(env.hasManagers /\ env.hasStore)
    THEN [success |-> FALSE, error |-> "Vector store not available"]
    ELSE IF ~env.hasEmbedder
    THEN [success |-> FALSE, error |-> "Embedder not available"]
    ELSE IF env.insertFails
    THEN [success |-> FALSE, error |-> "rejected"]
    ELSE [success |-> TRUE,
          snapshot_id |-> generateSnapshotId(args.target_commit, env.now),
          findings_preserved |-> StatusCount(args.relocation_results, "PRESERVED"),
          findings_relocated |-> StatusCount(args.relocation_results, "RELOCATED"),
          findings_new |-> Len(args.delta_envelope_ids),
          findings_stale |-> StatusCount(args.relocation_results, "STALE"),
          findings_orphaned |-> StatusCount(args.relocation_results, "ORPHANED"),
          conflicts_resolved |-> 0,
          trust_score |-> MergeTrustScore(args)]

\* snapshot_merge, called with arguments from argSet.
SnapshotMergeWith(argSet) ==
    /\ last = Idle
    /\ \E args \in argSet, env \in MergeEnvs :
         LET r == MergeResult(args, env)
         IN  /\ r.success => Len(store) < MaxStore
             /\ store' = IF r.success THEN Append(store, MergedSnapshotPayload(args, env))
                         ELSE store
             /\ last' = [op |-> "snapshot_merge", args |-> args, env |-> env,
                         result |-> r]

SnapshotMerge == SnapshotMergeWith(MergeArgs)

\* --------------------------------------------------------- snapshot create

\* The ids generateSnapshotId can return in the model.
SnapshotIds == {generateSnapshotId(c, t) : c \in Commits, t \in Seconds}

SnapshotCreateArgs ==
    [project_path : Projects,
     git_commit : Commits,
     git_branch : {"main"},
     analysis_mode : {"FULL"},
     baseline_snapshot_id : {None} \cup {Some(b) : b \in SnapshotIds \cup BaselineIds},
     findings : {<<"env-1">>},
     trust_score : {EmptyTrustScore}]

\* provenanceChain: the baseline id when there is one, then the new id.
CreateProvenanceChainIdFirst(args, snapshotId) ==
    <<snapshotId>> \o (IF args.baseline_snapshot_id # None
                        THEN <<args.baseline_snapshot_id[1]>> ELSE <<>>)

CreateProvenanceChain(args, snapshotId) ==
    (IF args.baseline_snapshot_id # None THEN <<args.baseline_snapshot_id[1]>> ELSE <<>>)
        \o <<snapshotId>>

\* The payload inserted: the snapshot and its memoryType.
CreatedSnapshotPayload(args, env) ==
    LET snapshotId == generateSnapshotId(args.git_commit, env.now)
    IN  [memoryType |-> "snapshot",
         snapshot_id |-> snapshotId,
         project_path |-> args.project_path,
         git_commit |-> args.git_commit,
         git_branch |-> args.git_branch,
         analysis_mode |-> args.analysis_mode,
         baseline_snapshot_id |-> OrDefault(args.baseline_snapshot_id, None),
         findings |-> args.findings,
         trust_score |-> args.trust_score,
         provenance_chain |-> CreateProvenanceChain(args, snapshotId),
         vector_id |-> env.vectorId]

SnapshotCreateResult(args, env) ==
    LET snapshotId == generateSnapshotId(args.git_commit, env.now)
        created == [success |-> TRUE, snapshot_id |-> snapshotId, stored |-> FALSE]
    IN  IF ~env.hasManagers THEN created
        ELSE IF ~env.hasStore THEN [success |-> FALSE, stored |-> FALSE]
        ELSE IF ~env.hasEmbedder THEN created
        ELSE IF env.insertFails THEN [success |-> FALSE, stored |-> FALSE]
        ELSE [success |-> TRUE, snapshot_id |-> snapshotId, stored |-> TRUE]

\* snapshot_create, called with arguments from argSet.
SnapshotCreateWith(argSet) ==
    /\ last = Idle
    /\ \E args \in argSet, env \in MergeEnvs :
         LET r == SnapshotCreateResult(args, env)
         IN  /\ r.stored => Len(store) < MaxStore
             /\ store' = IF r.stored THEN Append(store, CreatedSnapshotPayload(args, env))
                         ELSE store
             /\ last' = [op |-> "snapshot_create", args |-> args, env |-> env,
                         result |-> r]

SnapshotCreate == SnapshotCreateWith(SnapshotCreateArgs)

\* Merges onto baselines that may be stored: nothing relocated, one new envelope.
LineageMergeArgs ==
    [project_path : Projects,
     baseline_snapshot_id : SnapshotIds \cup BaselineIds,
     target_commit : Commits,
     relocation_results : {<<>>},
     delta_envelope_ids : {<<"e1">>},
     conflict_strategy : {None}]

SnapshotMergeOntoStored == SnapshotMergeWith(LineageMergeArgs)

\* ------------------------------------------- snapshot merge, calls in flight

\* Most calls in flight at once.
MaxInFlight == 2

\* The handler is an async function: it runs up to an await, and other calls
\* run while it waits.  pc is where a call waits: at embedder.embed
\* ("embedding"), at store.insert ("inserting"), or nowhere any more ("done").
InFlight == last.op = "in_flight"

Calls == IF InFlight THEN last.calls ELSE <<>>

Waiting(pc) == {i \in 1..Len(Calls) : Calls[i].pc = pc}

NotDone == {i \in 1..Len(Calls) : Calls[i].pc # "done"}

ConcurrentMergeArgs == {a \in LineageMergeArgs : a.baseline_snapshot_id \in BaselineIds}

ConcurrentMergeEnvs == {e \in MergeEnvs : e.hasEmbedder}

\* A call arrives and runs to its first await; nothing makes it wait for the
\* calls already in flight.
MergeBegin ==
    /\ last = Idle \/ InFlight
    /\ Len(Calls) < MaxInFlight
    /\ \E args \in ConcurrentMergeArgs, env \in ConcurrentMergeEnvs :
         last' = [op |-> "in_flight",
                  calls |-> Append(Calls, [args |-> args, env |-> env, pc |-> "embedding",
                                           overlaps |-> NotDone])]
    /\ UNCHANGED store

\* embedder.embed settles.
MergeEmbedded ==
    /\ InFlight
    /\ \E i \in Waiting("embedding") :
         last' = [last EXCEPT !.calls[i].pc = "inserting"]
    /\ UNCHANGED store

\* store.insert settles, and the call returns its result.
MergeInserted ==
    /\ InFlight
    /\ \E i \in Waiting("inserting") :
         LET r == MergeResult(Calls[i].args, Calls[i].env)
         IN  /\ r.success => Len(store) < MaxStore
             /\ store' = IF r.success
                         THEN Append(store, MergedSnapshotPayload(Calls[i].args, Calls[i].env))
                         ELSE store
             /\ last' = [last EXCEPT !.calls[i] =
                            [args |-> @.args, env |-> @.env, pc |-> "done",
                             overlaps |-> @.overlaps, result |-> r]]

\* Every call has returned.
ReturnAll ==
    /\ InFlight
    /\ NotDone = {}
    /\ last' = Idle
    /\ UNCHANGED store

\* ---------------------------------------------------------- envelope delete

\* Number of hits envelope_delete asks the index for.
DeleteSearchLimit == 100

EnvelopeDeleteArgs == [envelope_id : EnvelopeIds]

\* deleteFails: embed, search or delete throws.
EnvelopeDeleteEnvs ==
    {e \in [hasManagers : BOOLEAN, hasStore : BOOLEAN, hasEmbedder : BOOLEAN,
            deleteFails : BOOLEAN] :
        /\ e.hasStore => e.hasManagers
        /\ e.hasEmbedder => e.hasStore
        /\ e.deleteFails => e.hasEmbedder}

\* The hits that are the envelope asked for; the first one is the exactMatch.
ExactMatches(st, envelopeId) ==
    SelectSeq(Search(st, DeleteSearchLimit, 0),
              LAMBDA r : r.payload.memoryType = "envelope" /\ r.payload.envelope_id = envelopeId)

EnvelopeDeleteResult(args, env, st) ==
    IF ~env.hasEmbedder \/ env.deleteFails THEN [success |-> FALSE, deleted |-> FALSE]
    ELSE IF Len(ExactMatches(st, args.envelope_id)) = 0 THEN [success |-> FALSE, deleted |-> FALSE]
    ELSE [success |-> TRUE, deleted |-> TRUE,
          vector_id |-> ExactMatches(st, args.envelope_id)[1].payload.vector_id]

EnvelopeDelete ==
    /\ last = Idle
    /\ \E args \in EnvelopeDeleteArgs, env \in EnvelopeDeleteEnvs :
         LET r == EnvelopeDeleteResult(args, env, store)
         IN  /\ store' = IF r.deleted THEN StoreDelete(store, NumericId(r.vector_id)) ELSE store
             /\ last' = [op |-> "envelope_delete", args |-> args, env |-> env, result |-> r]

\* ------------------------------------------------------------ delta compute

\* Number of hits delta_compute asks the index for.
BaselineSearchLimit == 10

DeltaComputeArgs ==
    [project : Projects, baseline_snapshot_id : SnapshotIds \cup BaselineIds,
     target_commit : {None} \cup {Some(c) : c \in Commits}]

\* searchFails: embed or search throws.
DeltaComputeEnvs ==
    {e \in [hasManagers : BOOLEAN, hasStore : BOOLEAN, hasEmbedder : BOOLEAN,
            searchFails : BOOLEAN] :
        /\ e.hasStore => e.hasManagers
        /\ e.hasEmbedder => e.hasManagers
        /\ e.searchFails => (e.hasStore /\ e.hasEmbedder)}

\* The placeholder manifest the handler builds before it looks at the store.
DeltaManifest(args) ==
    [baseline_snapshot_id |-> args.baseline_snapshot_id,
     target_commit |-> OrDefault(args.target_commit, "HEAD"),
     changed_files |-> <<>>, affected_chunks |-> <<>>,
     cascade_affected |-> <<>>, semantic_affected |-> <<>>,
     recommendation |-> "NO_CHANGES", estimated_savings |-> "100%"]

BaselineResults(st, baselineId) ==
    SelectSeq(Search(st, BaselineSearchLimit, 0),
              LAMBDA r : r.payload.memoryType = "snapshot" /\ r.payload.snapshot_id = baselineId)

DeltaComputeResult(args, env, st) ==
    LET computed == [success |-> TRUE, delta_manifest |-> DeltaManifest(args),
                     recommendation |-> DeltaManifest(args).recommendation,
                     affected_chunks |-> DeltaManifest(args).affected_chunks]
    IN  IF ~(env.hasManagers /\ env.hasEmbedder /\ env.hasStore) THEN computed
        ELSE IF env.searchFails THEN [success |-> FALSE]
        ELSE IF Len(BaselineResults(st, args.baseline_snapshot_id)) = 0 THEN [success |-> FALSE]
        ELSE computed

DeltaCompute ==
    /\ last = Idle
    /\ \E args \in DeltaComputeArgs, env \in DeltaComputeEnvs :
         last' = [op |-> "delta_compute", args |-> args, env |-> env,
                  result |-> DeltaComputeResult(args, env, store)]
    /\ UNCHANGED store

\* ------------------------------------------------------------ branch manage

\* Git branch names, as sequences of characters.
GitBranches == {<<"f", "/", "x">>, <<"f", "-", "X">>}

\* What the six random base-36 characters of a branch id can come to.
RandomSuffixes == {"r1", "r2"}

\* Number of hits get and list ask the index for.
BranchGetSearchLimit == 20

BranchListSearchLimit == 200

\* replace(/[^a-zA-Z0-9-]/g, '-').toLowerCase(), on the characters in use.
SanitizeChar(c) ==
    CASE c = "X" -> "x"
      [] c \in {"f", "x", "-"} -> c
      [] OTHER -> "-"

Sanitize(gitBranch) == [i \in 1..Len(gitBranch) |-> SanitizeChar(gitBranch[i])]

generateBranchId(gitBranch, random) == <<"ab", Sanitize(gitBranch), random>>

BranchIds == {generateBranchId(g, r) : g \in GitBranches, r \in RandomSuffixes}

\* throws: embed, search, insert or delete throws.
BranchEnvs ==
    {e \in [hasStore : BOOLEAN, hasEmbedder : BOOLEAN, throws : BOOLEAN, vectorId : VectorIds] :
        e.throws => e.hasStore}

BranchCreateArgs ==
    [project_path : Projects, operation : {"create"},
     git_branch : {None} \cup {Some(g) : g \in GitBranches}, base_git_branch : {None}]

BranchLookupArgs ==
    {a \in [project_path : Projects, operation : {"get"},
            git_branch : {None} \cup {Some(g) : g \in GitBranches},
            analysis_branch_id : {None} \cup {Some(b) : b \in BranchIds}] :
        a.git_branch = None \/ a.analysis_branch_id = None}

BranchIdArgs(operation) ==
    {a \in [project_path : Projects, operation : {operation},
            analysis_branch_id : {None} \cup {Some(b) : b \in BranchIds},
            new_base_snapshot_id : {None} \cup {Some(b) : b \in BaselineIds}] :
        operation # "rebase" => a.new_base_snapshot_id = None}

Branch(args, branchId) ==
    [branch_id |-> branchId, git_branch |-> args.git_branch[1],
     base_git_branch |-> OrDefault(args.base_git_branch, "main")]

BranchPayload(args, branchId, vectorId) ==
    [memoryType |-> "branch", branch_id |-> branchId, git_branch |-> args.git_branch[1],
     base_git_branch |-> OrDefault(args.base_git_branch, "main"),
     project_path |-> args.project_path, vector_id |-> vectorId]

Failed == [success |-> FALSE]

BranchCreate ==
    /\ last = Idle
    /\ \E args \in BranchCreateArgs, env \in BranchEnvs, random \in RandomSuffixes :
         LET inserts == args.git_branch # None /\ env.hasStore /\ env.hasEmbedder
             branchId == generateBranchId(args.git_branch[1], random)
             r == IF args.git_branch = None \/ (inserts /\ env.throws) THEN Failed
                  ELSE [success |-> TRUE, branch |-> Branch(args, branchId)]
         IN  /\ ~inserts => (env.vectorId = 1 /\ ~env.throws /\ random = "r1")
             /\ (inserts /\ r.success) => Len(store) < MaxStore
             /\ store' = IF inserts /\ r.success
                         THEN Append(store, BranchPayload(args, branchId, env.vectorId))
                         ELSE store
             /\ last' = [op |-> "branch_manage", args |-> args, env |-> env, result |-> r]

\* The hits get keeps: the branches of the project with the id or name asked for.
GetResults(st, args) ==
    SelectSeq(Search(st, BranchGetSearchLimit, 0),
              LAMBDA r : /\ r.payload.memoryType = "branch"
                         /\ r.payload.project_path = args.project_path
                         /\ (args.analysis_branch_id # None
                               => r.payload.branch_id = args.analysis_branch_id[1])
                         /\ (args.git_branch # None
                               => r.payload.git_branch = args.git_branch[1]))

\* The hits list keeps: the branches of the project.
ListResults(st, project_path) ==
    SelectSeq(Search(st, BranchListSearchLimit, 0),
              LAMBDA r : r.payload.memoryType = "branch" /\ r.payload.project_path = project_path)

Payloads(results) == [i \in 1..Len(results) |-> results[i].payload]

BranchGet ==
    /\ last = Idle
    /\ \E args \in BranchLookupArgs, env \in BranchEnvs :
         LET searches == (args.git_branch # None \/ args.analysis_branch_id # None)
                         /\ env.hasStore /\ env.hasEmbedder
             r == IF args.git_branch = None /\ args.analysis_branch_id = None THEN Failed
                  ELSE IF searches /\ env.throws THEN Failed
                  ELSE IF searches /\ Len(GetResults(store, args)) > 0
                       THEN [success |-> TRUE, branch |-> Some(GetResults(store, args)[1].payload)]
                  ELSE [success |-> TRUE, branch |-> None]
         IN  /\ env.vectorId = 1
             /\ ~searches => ~env.throws
             /\ last' = [op |-> "branch_manage", args |-> args, env |-> env, result |-> r]
    /\ UNCHANGED store

BranchList ==
    /\ last = Idle
    /\ \E args \in [project_path : Projects, operation : {"list"}], env \in BranchEnvs :
         LET searches == env.hasStore /\ env.hasEmbedder
             r == IF searches /\ env.throws THEN Failed
                  ELSE IF searches
                       THEN [success |-> TRUE,
                             branches |-> Payloads(ListResults(store, args.project_path)),
                             count |-> Len(ListResults(store, args.project_path))]
                  ELSE [success |-> TRUE, branches |-> <<>>, count |-> 0]
         IN  /\ env.vectorId = 1
             /\ ~searches => ~env.throws
             /\ last' = [op |-> "branch_manage", args |-> args, env |-> env, result |-> r]
    /\ UNCHANGED store

\* delete hands the branch id, a string, to store.delete; the records went in
\* under numeric vector ids.
BranchDelete ==
    /\ last = Idle
    /\ \E args \in BranchIdArgs("delete"), env \in BranchEnvs :
         LET deletes == args.analysis_branch_id # None /\ env.hasStore
             r == IF args.analysis_branch_id = None \/ (deletes /\ env.throws) THEN Failed
                  ELSE [success |-> TRUE, deleted |-> TRUE,
                        branch_id |-> args.analysis_branch_id[1]]
         IN  /\ env.vectorId = 1
             /\ ~deletes => ~env.throws
             /\ store' = IF deletes /\ r.success
                         THEN StoreDelete(store, StringId(args.analysis_branch_id[1]))
                         ELSE store
             /\ last' = [op |-> "branch_manage", args |-> args, env |-> env, result |-> r]

\* rebase and merge_to_main check their arguments and report success with the
\* id of a snapshot that is never made; they read and write nothing.
BranchStub(operation) ==
    /\ last = Idle
    /\ \E args \in BranchIdArgs(operation), env \in BranchEnvs :
         /\ env.vectorId = 1 /\ ~env.throws
         /\ last' = [op |-> "branch_manage", args |-> args, env |-> env,
                      result |-> IF \/ args.analysis_branch_id = None
                                    \/ (operation = "rebase" /\ args.new_base_snapshot_id = None)
                                 THEN Failed
                                 ELSE [success |-> TRUE]]
    /\ UNCHANGED store

BranchRebase == BranchStub("rebase")

BranchMergeToMain == BranchStub("merge_to_main")

\* ------------------------------------------------- relocation: properties

IsRelocate == last.op = "finding_relocate"

\* What the loop body of the i-th strategy of the answered call leaves.
Candidate(i) ==
    StrategyOutcome(EffectiveStrategies(last.args)[i], last.args, last.env, store,
                    EffectiveMinConfidence(last.args))

RECURSIVE IsSubSeq(_, _)
IsSubSeq(a, b) ==
    IF a = <<>> THEN TRUE
    ELSE IF b = <<>> THEN FALSE
    ELSE IF Head(a) = Head(b) THEN IsSubSeq(Tail(a), Tail(b))
    ELSE IsSubSeq(a, Tail(b))

TriedNames(result) == [i \in 1..Len(result.strategies_tried) |-> result.strategies_tried[i].strategy]

\* C1: strategies are attempted in the caller-given order (the default list when
\* none is given); the first attempted strategy whose candidate confidence is
\* >= min_confidence ends the loop, the result carries that strategy's status,
\* method and confidence, and no later strategy is attempted or recorded in
\* strategies_tried; a loop that ends before the end of the list ended at such
\* a strategy or at one that threw.
C1_HaltsAtFirstQualifying ==
    IsRelocate =>
        LET strategies == EffectiveStrategies(last.args)
            minConfidence == EffectiveMinConfidence(last.args)
            attempted == last.attempted
        IN  /\ Len(attempted) <= Len(strategies)
            /\ attempted = SubSeq(strategies, 1, Len(attempted))
            /\ IsSubSeq(TriedNames(last.result), attempted)
            /\ \A i \in 1..Len(attempted) :
                  (~Candidate(i).throws /\ Candidate(i).confidence >= minConfidence) =>
                      /\ i = Len(attempted)
                      /\ last.result.success
                      /\ last.result.status = Candidate(i).status
                      /\ last.result.method = Candidate(i).method
                      /\ last.result.confidence = Candidate(i).confidence
            /\ Len(attempted) < Len(strategies) =>
                  LET n == Len(attempted)
                  IN  /\ n > 0
                      /\ Candidate(n).throws \/ Candidate(n).confidence >= minConfidence

\* A default call with a delta manifest: EXACT does not qualify, DRIFT does, and
\* SEMANTIC, HASH_GLOBAL and FUZZY are left out.
C1_Witness ==
    /\ IsRelocate
    /\ last.args.strategies = None
    /\ last.args.min_confidence = None
    /\ last.attempted = <<"EXACT", "DRIFT">>
    /\ last.result.success
    /\ last.result.method = "LINE_DRIFT"
    /\ last.result.confidence = DriftConfidence
    /\ TriedNames(last.result) = <<"EXACT", "DRIFT">>

\* C2: when EXACT is the first strategy and the snippet at the original location
\* is unchanged in the target commit, the result is PRESERVED with confidence
\* 1.0 and strategies_tried holds the EXACT attempt only.
C2_ExactPreserves ==
    (/\ IsRelocate
     /\ EffectiveStrategies(last.args) # <<>>
     /\ EffectiveStrategies(last.args)[1] = "EXACT"
     /\ last.env.snippetUnchanged) =>
        /\ last.result.success
        /\ last.result.status = "PRESERVED"
        /\ last.result.confidence = 100
        /\ TriedNames(last.result) = <<"EXACT">>

\* C3: when no strategy of the list reaches min_confidence, the result is a
\* success with status STALE and method CONTENT_CHANGED.
C3_NoneQualifiesIsStale ==
    (/\ IsRelocate
     /\ \A i \in 1..Len(EffectiveStrategies(last.args)) :
           Candidate(i).throws \/ Candidate(i).confidence < EffectiveMinConfidence(last.args)) =>
        /\ last.result.success
        /\ last.result.status = "STALE"
        /\ last.result.method = "CONTENT_CHANGED"

\* C4: in a successful result strategies_tried has exactly one entry per
\* attempted strategy, in attempt order.
C4_OneEntryPerAttempt ==
    (IsRelocate /\ last.result.success) => TriedNames(last.result) = last.attempted

\* C5: when a strategy throws, the call still succeeds, the attempts made so far
\* (the failed one included) are in strategies_tried, and the next strategy of
\* the list is attempted.
C5_StrategyFailureIsLocal ==
    IsRelocate =>
        \A i \in 1..Len(last.attempted) :
            Candidate(i).throws =>
                /\ last.result.success
                /\ Len(last.result.strategies_tried) >= i
                /\ i < Len(EffectiveStrategies(last.args)) => Len(last.attempted) > i


\* ------------------------------------------------ propagation: properties

IsPropagate == last.op = "graph_propagate"

\* A propagation that ran its searches and returned a result.
Propagated == IsPropagate /\ last.result.success /\ last.env.hasStore

EffectiveMaxDepth(args) == OrDefault(args.max_depth, DefaultMaxDepth)
EffectiveEdgeTypes(args) == OrDefault(args.edge_types, DefaultEdgeTypes)
EffectiveMinEdgeWeight(args) == OrDefault(args.min_edge_weight, DefaultMinEdgeWeight)

\* The stored edges of the call's project, in search order.
ProjectEdges(args) ==
    SelectSeq(store, LAMBDA p : IsProjectEdge([payload |-> p, score |-> 0], args.project_path))

\* An edge the call's parameters allow cascading through.
Admissible(edge, args) ==
    /\ edge.edge_type \in Range(EffectiveEdgeTypes(args))
    /\ edge.weight >= EffectiveMinEdgeWeight(args)

Joins(edge, x, y) ==
    \/ edge.source = x /\ edge.target = y
    \/ edge.source = y /\ edge.target = x

\* One more hop from the chunks of S over the admissible edges, either way.
Hop(S, args) ==
    S \cup {x \in Chunks : \E y \in S : \E e \in Range(ProjectEdges(args)) :
                Admissible(e, args) /\ Joins(e, x, y)}

RECURSIVE Closure(_, _)
Closure(S, args) == IF Hop(S, args) = S THEN S ELSE Closure(Hop(S, args), args)

\* C6: with max_depth = 0 the result has an empty cascade_affected and no
\* cascade chains.
C6_DepthZeroIsEmpty ==
    (IsPropagate /\ last.result.success /\ last.args.max_depth = Some(0)) =>
        /\ last.result.cascade_affected = <<>>
        /\ last.result.cascade_chains = <<>>

\* C7: with max_depth at least the graph diameter (at most |Chunks| - 1), every
\* chunk of the closure of the dirty set under the admissible edges is in
\* all_affected.
C7_ClosureIsAffected ==
    (Propagated /\ EffectiveMaxDepth(last.args) >= Cardinality(Chunks) - 1) =>
        Closure(Range(last.args.dirty_chunks), last.args) \subseteq Range(last.result.all_affected)

\* C8: every chunk of cascade_affected is joined to a dirty or cascade-affected
\* chunk by a stored edge whose type is in edge_types and whose weight is
\* >= min_edge_weight.
C8_OnlyAdmissibleEdges ==
    (IsPropagate /\ last.result.success) =>
        \A x \in Range(last.result.cascade_affected) :
            \E e \in Range(ProjectEdges(last.args)) :
                /\ Admissible(e, last.args)
                /\ \E y \in Range(last.result.all_affected) : y # x /\ Joins(e, x, y)

\* The first dirty chunk, in dirty_chunks order, that a stored edge of the
\* project joins to x, and the first such edge in search order.
FirstSource(x, args) ==
    LET js == {j \in 1..Len(args.dirty_chunks) :
                  \E e \in Range(ProjectEdges(args)) : Joins(e, x, args.dirty_chunks[j])}
    IN  args.dirty_chunks[CHOOSE j \in js : \A k \in js : j <= k]

FirstEdge(x, y, args) ==
    LET edges == ProjectEdges(args)
        ks == {k \in 1..Len(edges) : Joins(edges[k], x, y)}
    IN  edges[CHOOSE k \in ks : \A m \in ks : k <= m]

ChainsOf(x, result) ==
    {c \in 1..Len(result.cascade_chains) : result.cascade_chains[c].affected_chunk = x}

\* C10: cascade_affected lists each chunk once and holds no dirty chunk; each of
\* its chunks has exactly one chain, and no other chain exists; that chain is
\* the first discovery: from the first dirty chunk joined to it, over the first
\* joining edge in search order.
C10_OneChainPerChunk ==
    (IsPropagate /\ last.result.success) =>
        LET r == last.result
            dirty == Range(last.args.dirty_chunks)
        IN  /\ Cardinality(Range(r.cascade_affected)) = Len(r.cascade_affected)
            /\ Range(r.cascade_affected) \cap dirty = {}
            /\ Len(r.cascade_chains) = Len(r.cascade_affected)
            /\ \A x \in Range(r.cascade_affected) :
                  /\ Cardinality(ChainsOf(x, r)) = 1
                  /\ \A c \in ChainsOf(x, r) :
                        LET chain == r.cascade_chains[c]
                            src == FirstSource(x, last.args)
                        IN  /\ chain.source_chunk = src
                            /\ chain.path = <<src, x>>
                            /\ chain.edge_types = <<FirstEdge(x, src, last.args).edge_type>>
                            /\ chain.depth = 1

\* A chunk joined to two different dirty chunks is reported once, with the chain
\* from the first of them.
C10_Witness ==
    /\ Propagated
    /\ Len(last.args.dirty_chunks) = 2
    /\ last.args.dirty_chunks[1] # last.args.dirty_chunks[2]
    /\ \E x \in Range(last.result.cascade_affected) :
          /\ \A j \in 1..2 : \E e \in Range(ProjectEdges(last.args)) :
                Joins(e, x, last.args.dirty_chunks[j])
          /\ Cardinality(ChainsOf(x, last.result)) = 1
          /\ \A c \in ChainsOf(x, last.result) :
                last.result.cascade_chains[c].source_chunk = last.args.dirty_chunks[1]

\* ------------------------------------- propagation step by step: properties

\* The stepwise run and the handler as one function agree on the result.
StepsMatchHandler ==
    last.op = "graph_propagate" => last.result = PropagateHandler(last.args, last.env, store)

\* Two stored edges of the project form a cycle through the first dirty chunk.
CycleThroughFirstDirty ==
    /\ last.args.dirty_chunks # <<>>
    /\ \E a, b \in Range(ProjectEdges(last.args)) :
          /\ a.source = last.args.dirty_chunks[1]
          /\ b.source = a.target
          /\ b.target = a.source
          /\ a.source # a.target

\* C11: a propagation call over a finite graph, cycles included, terminates:
\* every call that is running eventually is not running any more.
C11_PropagationTerminates == PropagateRunning ~> ~PropagateRunning

\* A call over a graph with a cycle through its dirty chunk has returned, after
\* walking both edges of the cycle.
C11_Witness ==
    /\ last.op = "graph_propagate"
    /\ last.result.success
    /\ CycleThroughFirstDirty
    /\ last.result.stats.nodes_visited >= 2
    /\ last.result.cascade_affected # <<>>

\* ---------------------------------------------- graph updates: properties

IsGraphUpdate(operation) == last.op = "graph_update" /\ last.operation = operation

IsGraphRecord(p) == p.memoryType = "graph"

\* What a graph record is keyed by: the node id, or the edge's endpoints and
\* type, within its project and commit.
Identity(p) ==
    IF p.recordType = "node"
    THEN <<"node", p.project_path, p.commit, p.node_id>>
    ELSE <<"edge", p.project_path, p.commit, p.source, p.target, p.edge_type>>

\* C12: graph upsert is keyed by identity and idempotent: the store holds at
\* most one record per node identity and per edge identity, however often the
\* node or edge was added.
C12_OneRecordPerIdentity ==
    \A i, j \in 1..Len(store) :
        (i < j /\ IsGraphRecord(store[i]) /\ IsGraphRecord(store[j]))
            => Identity(store[i]) # Identity(store[j])

\* C13: once remove_node(id) has succeeded, the project's graph holds neither
\* the node id nor an edge with id as its source or target.
C13_RemoveNodeCascades ==
    (IsGraphUpdate("remove_node") /\ last.result.success
        /\ last.result.nodes_affected = 1)
    => \A i \in 1..Len(store) :
          (IsGraphRecord(store[i]) /\ store[i].project_path = last.args.project_path)
          => IF store[i].recordType = "node"
             THEN store[i].node_id # last.args.node_id[1]
             ELSE /\ store[i].source # last.args.node_id[1]
                  /\ store[i].target # last.args.node_id[1]

\* A result that says only that the call failed.
AllOrNothingFailure(result) ==
    ~result.success /\ DOMAIN result = {"success", "error"}

\* C14: when item k of a bulk_update is rejected, the k-1 items before it stay
\* in the store and the result is not a single all-or-nothing failure.
C14_BulkReportsEachItem ==
    [][(last'.op = "graph_update" /\ last'.operation = "bulk_update"
            /\ last'.env.failAt > 0)
        => /\ store' = store \o SubSeq(BulkPayloads(last'.args), 1, last'.env.failAt - 1)
           /\ ~AllOrNothingFailure(last'.result)]_vars

\* The half of C14 the code keeps: the items before the rejected one stay.
BulkKeepsEarlierItems ==
    [][(last'.op = "graph_update" /\ last'.operation = "bulk_update"
            /\ last'.env.failAt > 0)
        => store' = store \o SubSeq(BulkPayloads(last'.args), 1, last'.env.failAt - 1)]_vars

\* ------------------------------------------------- trust score: properties

IsTrust == last.op = "trust_score"

Total(c) == c.preserved + c.relocated + c.stale + c.orphaned + c.newFindings

\* C15: for all non-negative counts the overall score lies between 0 and 10,
\* and with no findings at all it is exactly 10 with level HIGH.
C15_ScoreInRange ==
    IsTrust =>
        /\ 0 <= last.result.overall /\ last.result.overall <= 100
        /\ Total(last.args) = 0 =>
              (last.result.overall = 100 /\ last.result.level = "HIGH")

\* The score of a merge without any finding has been computed.
C15_Witness == IsTrust /\ Total(last.args) = 0 /\ last.result.overall = 100

\* The lowest score there is, 2.1: every finding stale or orphaned.
LowestScoreComputed ==
    /\ IsTrust
    /\ Total(last.args) > 0
    /\ last.args.stale + last.args.orphaned = Total(last.args)
    /\ last.result.overall = 21

\* C16: for a positive total, coverage is (preserved + relocated + new) / total,
\* freshness is 0.9 with new findings and 0.7 without, confidence is
\* 1 - (stale + orphaned) / total, overall is
\* (0.4 coverage + 0.3 freshness + 0.3 confidence) * 10 rounded to one decimal
\* (v is that value times 10, as vn / vd), and the level is HIGH from 8,
\* MEDIUM from 5 up to 8, LOW below.
C16_ScoreFormula ==
    (IsTrust /\ Total(last.args) > 0) =>
        LET c == last.args
            t == Total(c)
            r == last.result
            cov == r.components.coverage
            conf == r.components.confidence
            f == r.components.freshness
            vn == 400 * cov.num * conf.den + 3 * f * cov.den * conf.den
                    + 300 * conf.num * cov.den
            vd == 10 * cov.den * conf.den
        IN  /\ cov.num * t = (c.preserved + c.relocated + c.newFindings) * cov.den
            /\ f = IF c.newFindings > 0 THEN 90 ELSE 70
            /\ conf.num * t = (t - (c.stale + c.orphaned)) * conf.den
            /\ 2 * vd * r.overall <= 2 * vn + vd
            /\ 2 * vn + vd < 2 * vd * (r.overall + 1)
            /\ (r.level = "HIGH") <=> (r.overall >= 80)
            /\ (r.level = "MEDIUM") <=> (50 <= r.overall /\ r.overall < 80)
            /\ (r.level = "LOW") <=> (r.overall < 50)

\* A score that had to be rounded: three of four findings kept and none new
\* gives 73.5 tenths, returned as 7.4, MEDIUM.
C16_Witness ==
    /\ IsTrust
    /\ Total(last.args) = 4
    /\ last.args.stale + last.args.orphaned = 1
    /\ last.args.newFindings = 0
    /\ last.result.overall = 74
    /\ last.result.level = "MEDIUM"

\* ------------------------------------------------ snapshot merge: properties

IsMerge == last.op = "snapshot_merge"

Merged == IsMerge /\ last.result.success

\* The snapshot the call stored.
MergedSnapshot == store[Len(store)]

StatusOf(id) == last.args.relocation_results[id].status

\* C17: a successful merge counts every entry of the relocation-result map
\* once, as preserved, relocated, stale or orphaned, and findings_new is the
\* number of delta_envelope_ids.
C17_MergeConservation ==
    Merged =>
        /\ last.result.findings_preserved + last.result.findings_relocated
              + last.result.findings_stale + last.result.findings_orphaned
             = Cardinality(DOMAIN last.args.relocation_results)
        /\ last.result.findings_new = Len(last.args.delta_envelope_ids)

\* A merge of a stale and a relocated baseline finding with two new ones.
C17_Witness ==
    /\ Merged
    /\ last.result.findings_stale = 1
    /\ last.result.findings_relocated = 1
    /\ last.result.findings_new = 2

\* C18: the finding set of the merged snapshot is exactly the baseline ids
\* with status PRESERVED or RELOCATED together with all delta_envelope_ids,
\* and holds no id whose status is STALE or ORPHANED.
C18_MergedFindingSet ==
    Merged =>
        /\ MergedSnapshot.memoryType = "snapshot"
        /\ MergedSnapshot.snapshot_id = last.result.snapshot_id
        /\ Range(MergedSnapshot.findings)
             = {id \in DOMAIN last.args.relocation_results :
                    StatusOf(id) \in {"PRESERVED", "RELOCATED"}}
                 \cup Range(last.args.delta_envelope_ids)
        /\ \A id \in DOMAIN last.args.relocation_results :
              StatusOf(id) \in {"STALE", "ORPHANED"}
                  => id \notin Range(MergedSnapshot.findings)

\* A merge that keeps one baseline finding, drops an orphaned one and adds a
\* new one.
C18_Witness ==
    /\ Merged
    /\ \E kept, dropped \in DOMAIN last.args.relocation_results :
          /\ StatusOf(kept) = "PRESERVED"
          /\ StatusOf(dropped) = "ORPHANED"
          /\ kept \in Range(MergedSnapshot.findings)
    /\ last.args.delta_envelope_ids # <<>>

\* Where the finding of each delta envelope lies.
DeltaLocation(id) ==
    IF id = "e1" THEN [file |-> "a.ts", line_start |-> 15, line_end |-> 25]
    ELSE [file |-> "b.ts", line_start |-> 1, line_end |-> 5]

\* Same file, overlapping line ranges.
Collides(l1, l2) ==
    /\ l1.file = l2.file
    /\ l1.line_start <= l2.line_end
    /\ l2.line_start <= l1.line_end

\* The pairs of a relocated baseline finding and a new finding that collide.
CollidingPairs(args) ==
    {pair \in (DOMAIN args.relocation_results) \X Range(args.delta_envelope_ids) :
        /\ args.relocation_results[pair[1]].status = "RELOCATED"
        /\ Collides(args.relocation_results[pair[1]].new_location[1],
                    DeltaLocation(pair[2]))}

EffectiveConflictStrategy(args) == OrDefault(args.conflict_strategy, "PREFER_NEW")

\* C19: a KEEP_BOTH merge with one colliding relocated/new pair reports
\* conflicts_resolved = 1 and keeps both findings of the pair.
C19_KeepBothCountsConflict ==
    (Merged /\ EffectiveConflictStrategy(last.args) = "KEEP_BOTH"
        /\ Cardinality(CollidingPairs(last.args)) = 1)
    => /\ last.result.conflicts_resolved = 1
       /\ \A pair \in CollidingPairs(last.args) :
             {pair[1], pair[2]} \subseteq Range(MergedSnapshot.findings)

\* The half of C19 the code keeps: both findings of the pair are kept.
KeepBothKeepsBoth ==
    (Merged /\ EffectiveConflictStrategy(last.args) = "KEEP_BOTH")
    => \A pair \in CollidingPairs(last.args) :
          {pair[1], pair[2]} \subseteq Range(MergedSnapshot.findings)

\* C20: of a colliding pair, the merged finding set omits the relocated
\* finding under PREFER_NEW (the default) and the new one under
\* PREFER_BASELINE.
C20_CollisionDropsOne ==
    Merged =>
        \A pair \in CollidingPairs(last.args) :
            /\ EffectiveConflictStrategy(last.args) = "PREFER_NEW"
                  => pair[1] \notin Range(MergedSnapshot.findings)
            /\ EffectiveConflictStrategy(last.args) = "PREFER_BASELINE"
                  => pair[2] \notin Range(MergedSnapshot.findings)

\* ------------------------------------------------------ lineage: properties

IsSnapshot(p) == p.memoryType = "snapshot"

\* The positions before j that hold a snapshot with this id.
StoredBefore(id, j) ==
    {i \in 1..(j - 1) : IsSnapshot(store[i]) /\ store[i].snapshot_id = id}

\* C21: a snapshot made from a stored baseline B carries B's provenance chain
\* followed by its own id, so that chains list every ancestor in order.
C21_ChainExtendsBaseline ==
    \A j \in 1..Len(store) :
        (IsSnapshot(store[j]) /\ StoredBefore(store[j].baseline_snapshot_id, j) # {})
        => \E i \in StoredBefore(store[j].baseline_snapshot_id, j) :
              store[j].provenance_chain
                  = store[i].provenance_chain \o <<store[j].snapshot_id>>

\* C28: a snapshot_merge whose baseline_snapshot_id names no stored snapshot
\* fails and inserts nothing, so every baseline a stored merged snapshot
\* refers to is itself stored.
C28_MergeNeedsStoredBaseline ==
    /\ (IsMerge /\ last.result.success)
          => StoredBefore(last.args.baseline_snapshot_id, Len(store)) # {}
    /\ \A j \in 1..Len(store) :
          (IsSnapshot(store[j]) /\ store[j].analysis_mode = "INCREMENTAL")
          => \E i \in 1..Len(store) :
                IsSnapshot(store[i]) /\ store[i].snapshot_id = store[j].baseline_snapshot_id

\* -------------------------------------------------- persistence: properties

Persists(call) == call.op \in {"envelope_store", "snapshot_create"}

ServicesAvailable(env) == env.hasManagers /\ env.hasStore /\ env.hasEmbedder

\* C23: envelope_store and snapshot_create report stored = true only when the
\* call has inserted its record, and without the vector store or the embedder
\* they report stored = false.
C23_StoredMeansInserted ==
    [][Persists(last')
        => /\ last'.result.stored
                => /\ Len(store') = Len(store) + 1
                   /\ SubSeq(store', 1, Len(store)) = store
           /\ ~ServicesAvailable(last'.env) => ~last'.result.stored]_vars

\* The part of C23 about snapshot_create alone, which the code keeps.
SnapshotStoredMeansInserted ==
    [][last'.op = "snapshot_create"
        => /\ last'.result.stored
                => store' = Append(store, CreatedSnapshotPayload(last'.args, last'.env))
           /\ ~ServicesAvailable(last'.env) => ~last'.result.stored]_vars

\* ------------------------------------------------- calls in flight: properties

StoredBy(i) == Calls[i].pc = "done" /\ Calls[i].result.success

\* C22: merges of one project are mutually exclusive: no two merges that were
\* in flight at the same time and start from the same baseline both store a
\* snapshot, which would give two different chains extending that baseline.
C22_MergesSerialized ==
    \A i, j \in 1..Len(Calls) :
        (/\ i \in Calls[j].overlaps
         /\ Calls[i].args.project_path = Calls[j].args.project_path
         /\ Calls[i].args.baseline_snapshot_id = Calls[j].args.baseline_snapshot_id
         /\ StoredBy(i) /\ StoredBy(j))
        => Calls[i].result.snapshot_id = Calls[j].result.snapshot_id

\* ------------------------------------------------ stored records: properties

Records(st, memoryType) == SelectSeq(st, LAMBDA p : p.memoryType = memoryType)

\* The records of a kind that st holds are still there, unchanged and in
\* order, at the front of those that after holds.
Kept(st, after, memoryType) ==
    /\ Len(Records(st, memoryType)) <= Len(Records(after, memoryType))
    /\ SubSeq(Records(after, memoryType), 1, Len(Records(st, memoryType))) = Records(st, memoryType)

\* C24: a stored snapshot is never changed or removed: every step of every
\* tool leaves each stored snapshot record as it was.
C24_SnapshotsImmutable == [][Kept(store, store', "snapshot")]_vars

\* C25: envelopes are append-only: every step of every tool leaves each
\* stored envelope record in the store as it was.
C25_EnvelopesAppendOnly == [][Kept(store, store', "envelope")]_vars

\* ------------------------------------------------- delta compute: properties

IsDelta == last.op = "delta_compute"

\* C26: delta_compute for a baseline id that no stored snapshot carries fails
\* and returns no manifest, whatever the store holds and whichever services
\* are there.
C26_UnknownBaselineFails ==
    (IsDelta /\ ~\E i \in 1..Len(store) : /\ IsSnapshot(store[i])
                                          /\ store[i].snapshot_id = last.args.baseline_snapshot_id)
    => /\ ~last.result.success
       /\ "delta_manifest" \notin DOMAIN last.result

\* C27: a delta_compute that had no store or no embedder to work with, and so
\* carried out no diff and no propagation, recommends FULL.
C27_NoDiffMeansFull ==
    (IsDelta /\ ~ServicesAvailable(last.env) /\ last.result.success)
    => last.result.recommendation = "FULL"

\* ------------------------------------------------- branch manage: properties

IsBranchOp(operation) == last.op = "branch_manage" /\ last.args.operation = operation

BranchRecords(st) == {i \in 1..Len(st) : st[i].memoryType = "branch"}

SameBranch(p, q) == p.project_path = q.project_path /\ p.git_branch = q.git_branch

\* C29: create fails when the project already has a branch record with the
\* same git branch name, so the store never holds two branch records for one
\* (project, git branch name).
C29_OneBranchPerName ==
    \A i, j \in BranchRecords(store) : SameBranch(store[i], store[j]) => i = j

\* C30: once delete of branch b has returned success, list (and so get) for
\* any project, asked with store and embedder at hand, returns no branch b.
C30_DeletedBranchGone ==
    (IsBranchOp("delete") /\ last.result.success)
    => \A project_path \in Projects :
          \A i \in 1..Len(ListResults(store, project_path)) :
              ListResults(store, project_path)[i].payload.branch_id # last.result.branch_id

\* ------------------------------------- branch delete and snapshots: properties

\* The snapshots snapshot_create makes for one project without a baseline.
AuditSnapshotArgs ==
    {a \in SnapshotCreateArgs : a.project_path = "P1" /\ a.baseline_snapshot_id = None}

SnapshotCreateForAudit == SnapshotCreateWith(AuditSnapshotArgs)

\* C31: branch delete leaves the stored snapshots as they were: the snapshot
\* records after a delete call are the snapshot records before it.
C31_DeleteKeepsSnapshots ==
    [][(last'.op = "branch_manage" /\ last'.args.operation = "delete")
       => Records(store', "snapshot") = Records(store, "snapshot")]_vars

\* A delete that reached store.delete and reported success, for a branch whose
\* record is stored next to a snapshot.
C31_Witness ==
    /\ IsBranchOp("delete") /\ last.result.success /\ last.env.hasStore
    /\ Len(Records(store, "snapshot")) > 0
    /\ \E i \in BranchRecords(store) : store[i].branch_id = last.result.branch_id

\* ------------------------------------- relocation and store: properties

\* The call ran the SEMANTIC search.
Searched ==
    /\ IsRelocate
    /\ last.env.hasStore /\ last.env.hasEmbedder
    /\ "SEMANTIC" \in Range(last.attempted)

\* C32: finding_relocate never mutates stored state: the store after the call
\* is the store before it, whatever the outcome.
C32_RelocateLeavesStore ==
    [][last'.op = "finding_relocate" => store' = store]_vars

\* A relocate call that searched a store holding an envelope.
C32_Witness ==
    /\ Searched
    /\ ~last.env.searchFails
    /\ Len(Records(store, "envelope")) > 0

Malformed(params) ==
    \/ params.chunk_index >= params.total_chunks
    \/ params.tier \notin MinTier..MaxTier
    \/ params.findings_count = 0
    \/ params.workflow_goal \notin {"AUDIT", "DOCUMENT", "BUILD_FRONTEND"}
    \/ params.confidence \notin {"HIGH", "MEDIUM", "LOW"}

\* C33: envelope_store answers malformed parameters (chunk_index >=
\* total_chunks, tier outside [0,8], no findings, unknown workflow_goal or
\* confidence) with a failure, stored = false, and leaves the store as it was.
C33_MalformedRejected ==
    [][(last'.op = "envelope_store" /\ Malformed(last'.args))
       => /\ ~last'.result.success
          /\ ~last'.result.stored
          /\ store' = store]_vars

\* A call whose only fault is chunk_index = total_chunks, with every service
\* at hand and an envelope already stored, is rejected.
C33_Witness ==
    /\ last.op = "envelope_store"
    /\ last.args.chunk_index = last.args.total_chunks
    /\ last.args.tier \in MinTier..MaxTier /\ last.args.findings_count > 0
    /\ last.args.workflow_goal = "AUDIT" /\ last.args.confidence = "HIGH"
    /\ ServicesAvailable(last.env)
    /\ Len(store) > 0
    /\ ~last.result.success

\* Position of DRIFT among the attempted strategies, 0 when it was not attempted.
DriftAt ==
    IF \E i \in 1..Len(last.attempted) : last.attempted[i] = "DRIFT"
    THEN CHOOSE i \in 1..Len(last.attempted) :
            /\ last.attempted[i] = "DRIFT"
            /\ \A j \in 1..(i - 1) : last.attempted[j] # "DRIFT"
    ELSE 0

\* The last attempted strategy made the loop's halt test true.
HaltedInLoop ==
    /\ IsRelocate /\ last.result.success
    /\ last.attempted # <<>>
    /\ Halts(Candidate(Len(last.attempted)).confidence, EffectiveMinConfidence(last.args))

\* C34: without a delta manifest DRIFT abstains: the call does not fail, the
\* DRIFT attempt is recorded with confidence 0, and the strategy listed after
\* DRIFT is attempted; with a delta manifest a result that DRIFT decides has
\* status RELOCATED and method LINE_DRIFT.
C34_DriftAbstains ==
    (IsRelocate /\ DriftAt > 0) =>
        LET strategies == EffectiveStrategies(last.args)
        IN  /\ ~last.args.delta_manifest =>
                  /\ ~Candidate(DriftAt).throws
                  /\ Candidate(DriftAt).pushed = <<Tried("DRIFT", "NO_DELTA_MANIFEST", 0)>>
                  /\ DriftAt < Len(strategies) => Len(last.attempted) > DriftAt
            /\ (last.args.delta_manifest /\ HaltedInLoop /\ Len(last.attempted) = DriftAt) =>
                  /\ last.result.status = "RELOCATED"
                  /\ last.result.method = "LINE_DRIFT"

\* C37: a call that halts inside the strategy loop returns PRESERVED or
\* RELOCATED, never ORPHANED with CONTENT_CHANGED, for every min_confidence,
\* 0 included.
C37_HaltMeansMatch ==
    HaltedInLoop =>
        /\ last.result.status \in {"PRESERVED", "RELOCATED"}
        /\ ~(last.result.status = "ORPHANED" /\ last.result.method = "CONTENT_CHANGED")

\* ------------------------------------------- SEMANTIC strategy: properties

\* The hits of the answered call's search that pass the SEMANTIC filter.
SemanticResults ==
    SelectSeq(Search(store, SemanticSearchLimit, last.env.score),
              LAMBDA r : IsProjectEnvelope(r, last.args.project_path))

\* The call searched and got its hits.
SearchAnswered == Searched /\ ~last.env.searchFails

\* C40: an envelope that envelope_store stored for project P passes the
\* SEMANTIC filter of a finding_relocate call with project_path = P: when the
\* store holds such an envelope, the filtered hits of the call are not empty.
C40_StoredEnvelopeIsCandidate ==
    (/\ SearchAnswered
     /\ \E i \in 1..Len(store) : /\ store[i].memoryType = "envelope"
                                 /\ store[i].project = last.args.project_path)
    => SemanticResults # <<>>

\* A search hit as the SEMANTIC filter expects it: an envelope record that
\* carries project_path.
IndexedEnvelope(project_path) ==
    [memoryType |-> "envelope", envelope_id |-> "env-1", project |-> project_path,
     project_path |-> project_path, validation_status |-> "PENDING", vector_id |-> 1]

\* The SEMANTIC case as a function of what the index returns: the index holds
\* nothing or one such record.
InitIndexed ==
    /\ store \in {<<>>} \cup {<<IndexedEnvelope(p)>> : p \in Projects}
    /\ last = Idle

\* Position of SEMANTIC among the attempted strategies, 0 when not attempted.
SemanticAt ==
    IF \E i \in 1..Len(last.attempted) : last.attempted[i] = "SEMANTIC"
    THEN CHOOSE i \in 1..Len(last.attempted) :
            /\ last.attempted[i] = "SEMANTIC"
            /\ \A j \in 1..(i - 1) : last.attempted[j] # "SEMANTIC"
    ELSE 0

\* C35: SEMANTIC accepts a best score >= min_confidence, the boundary
\* included: the call then halts at SEMANTIC with status RELOCATED.
C35_SemanticAcceptsBoundary ==
    (/\ SearchAnswered
     /\ SemanticResults # <<>>
     /\ SemanticResults[1].score >= EffectiveMinConfidence(last.args))
    => /\ last.result.success
       /\ Len(last.attempted) = SemanticAt
       /\ last.result.status = "RELOCATED"
       /\ last.result.method = "SEMANTIC_SAME_FILE"
       /\ last.result.confidence = SemanticResults[1].score

\* ------------------------------------------ trust components: properties

Abs(n) == IF n < 0 THEN 0 - n ELSE n

\* Every finding preserved, and new findings on top.
AllPreservedPlusNew(c) ==
    /\ c.preserved > 0 /\ c.newFindings > 0
    /\ c.relocated = 0 /\ c.stale = 0 /\ c.orphaned = 0

\* What C38 says of overall: within [2.1, 9.7] for a positive total, so 10 only
\* for total = 0, and all-preserved-plus-new below the empty merge.
OverallBounds ==
    IsTrust =>
        /\ Total(last.args) > 0 => (21 <= last.result.overall /\ last.result.overall <= 97)
        /\ last.result.overall = 100 => Total(last.args) = 0
        /\ AllPreservedPlusNew(last.args) => last.result.overall < EmptyTrustScore.overall

\* C38 as stated: for every count tuple with total > 0 the coverage component
\* equals the confidence component and overall lies between 2.1 and 9.7; so
\* overall = 10 is returned only for total = 0, and a merge with every finding
\* preserved plus new findings scores strictly below the empty merge.
C38_CoverageEqualsConfidence ==
    /\ (IsTrust /\ Total(last.args) > 0) =>
           last.result.components.coverage = last.result.components.confidence
    /\ OverallBounds

\* C38 as amended: for total > 0 coverage and confidence are two doubles for
\* the same fraction (preserved + relocated + new) / total, less than 2^-52
\* apart, and overall is bounded as stated.
C38_SameFractionAndRange ==
    /\ (IsTrust /\ Total(last.args) > 0) =>
           LET c == last.args
               cov == last.result.components.coverage
               conf == last.result.components.confidence
           IN  /\ cov.den = Total(c) /\ conf.den = Total(c)
               /\ cov.num = c.preserved + c.relocated + c.newFindings
               /\ conf.num = cov.num
               /\ conf.exp = cov.exp
               /\ cov.exp = 0 => (cov.off = 0 /\ conf.off = 0)
               /\ cov.exp > 0 =>
                     Abs(cov.off - conf.off) < cov.den * Pow2(cov.exp - (SignificandBits - 1))
    /\ OverallBounds

\* One orphaned and two new findings: coverage is 2/3 rounded,
\* 0.6666666666666666, confidence is 1 - 0.3333333333333333 =
\* 0.6666666666666667, and overall is 7.4.
C38_Witness ==
    /\ IsTrust
    /\ last.args = [preserved |-> 0, relocated |-> 0, stale |-> 0, orphaned |-> 1,
                    newFindings |-> 2]
    /\ last.result.components.coverage.off < last.result.components.confidence.off
    /\ last.result.overall = 74

\* ---------------------------------------------- snapshot chains: properties

ChainCreateArgs ==
    {a \in SnapshotCreateArgs :
        /\ a.project_path = "P1"
        /\ a.baseline_snapshot_id \in {None} \cup {Some(b) : b \in BaselineIds}}

ChainMergeArgs ==
    {a \in LineageMergeArgs : a.project_path = "P1" /\ a.baseline_snapshot_id \in BaselineIds}

SnapshotCreateForChain == SnapshotCreateWith(ChainCreateArgs)

SnapshotMergeForChain == SnapshotMergeWith(ChainMergeArgs)

\* C36: in every stored snapshot the provenance chain is not empty and ends
\* with the snapshot's own id, whether snapshot_create made it, with or
\* without a baseline, or snapshot_merge.
C36_ChainEndsInSelf ==
    \A i \in 1..Len(store) :
        IsSnapshot(store[i]) =>
            /\ store[i].provenance_chain # <<>>
            /\ store[i].provenance_chain[Len(store[i].provenance_chain)] = store[i].snapshot_id

\* The store holds a snapshot created on a baseline and a merged one.
C36_Witness ==
    /\ \E i \in 1..Len(store) :
          /\ IsSnapshot(store[i]) /\ store[i].analysis_mode = "FULL"
          /\ Len(store[i].provenance_chain) = 2
    /\ \E i \in 1..Len(store) :
          IsSnapshot(store[i]) /\ store[i].analysis_mode = "INCREMENTAL"

\* C39: no two stored snapshots share a snapshot_id, calls in the same second
\* for the same commit included: two snapshot records held under different
\* vector ids have different snapshot ids.
C39_SnapshotIdsDistinct ==
    \A i, j \in 1..Len(store) :
        (IsSnapshot(store[i]) /\ IsSnapshot(store[j]) /\ store[i].vector_id # store[j].vector_id)
        => store[i].snapshot_id # store[j].snapshot_id


Init ==
    /\ store = <<>>
    /\ last = Idle

NextRelocate == EnvelopeStore \/ FindingRelocate \/ Return

SpecRelocate == Init /\ [][NextRelocate]_vars

NextGraph == GraphAddEdge \/ GraphPropagate \/ Return

SpecGraph == Init /\ [][NextGraph]_vars

NextPropagateSteps ==
    GraphAddEdge \/ PropagateBegin \/ PropagateSearch \/ PropagateVisit
        \/ PropagateNextChunk \/ PropagateEnd \/ Return

\* The handler is an async function on the event loop: a call that can take
\* its next step eventually takes it.
SpecPropagateSteps == Init /\ [][NextPropagateSteps]_vars /\ WF_vars(PropagateStep)

NextGraphUpdate ==
    GraphAddNode \/ GraphAddEdge \/ GraphRemoveNode \/ GraphRemoveEdge
        \/ GraphBulkUpdate \/ Return

SpecGraphUpdate == Init /\ [][NextGraphUpdate]_vars

NextTrust == ComputeTrust \/ Return

SpecTrust == Init /\ [][NextTrust]_vars

NextMerge == SnapshotMerge

\* One snapshot_merge call; the handler reads nothing from the store, so the
\* call is made on the store as constructed.
SpecMerge == Init /\ [][NextMerge]_vars

NextLineage == SnapshotCreate \/ SnapshotMergeOntoStored \/ Return

SpecLineage == Init /\ [][NextLineage]_vars

NextPersist == EnvelopeStore \/ SnapshotCreate \/ EnvelopeDelete \/ Return

SpecPersist == Init /\ [][NextPersist]_vars

NextInFlight == MergeBegin \/ MergeEmbedded \/ MergeInserted \/ ReturnAll

SpecInFlight == Init /\ [][NextInFlight]_vars

NextDelta == SnapshotCreate \/ DeltaCompute \/ Return

SpecDelta == Init /\ [][NextDelta]_vars

NextBranch ==
    \/ BranchCreate
    \/ BranchGet
    \/ BranchList
    \/ BranchDelete
    \/ BranchRebase
    \/ BranchMergeToMain
    \/ Return

SpecBranch == Init /\ [][NextBranch]_vars

NextBranchAudit == SnapshotCreateForAudit \/ BranchCreate \/ BranchDelete \/ Return

SpecBranchAudit == Init /\ [][NextBranchAudit]_vars

NextSemantic == FindingRelocate \/ Return

SpecSemantic == InitIndexed /\ [][NextSemantic]_vars

NextChain == SnapshotCreateForChain \/ SnapshotMergeForChain \/ Return

SpecChain == Init /\ [][NextChain]_vars

====
